---- MODULE Spec2Model ----
(***************************************************************************)
(* The user directory service of src/main.py: one shared in-memory list    *)
(* users_db and the request handlers that read and write it.               *)
(*                                                                         *)
(* Encoding.  An Optional value is a set: None is {}, a value v is {v}.    *)
(* A string that is measured or searched (a name) is a sequence of         *)
(* one-character strings; a Hangul syllable of the seed names is written   *)
(* as one romanised element ("gim"), so the seed names keep their length 3.*)
(* A request body is a function whose domain is the set of fields the      *)
(* client sent (pydantic's "fields set"); a field sent as JSON null maps   *)
(* to None.  Request values are well typed; type coercion is not modelled. *)
(* A response is the handler's return value (status 200), the              *)
(* HTTPException it raises (404), the request validation error raised      *)
(* before the handler runs (422) or an exception escaping the handler      *)
(* (500).  The serialisation of a returned value through response_model    *)
(* is not modelled.                                                        *)
(***************************************************************************)
EXTENDS Integers, Sequences, FiniteSets, TLC

VARIABLES users_db, resp, ever, nCreates, nUpdates

vars == <<users_db, resp, ever, nCreates, nUpdates>>

\* ---------------------------------------------------------------- bounds
\* At most MaxCreates POST requests are handled in one behaviour.
MaxCreates == 1
\* At most MaxUpdates PUT requests are handled in one behaviour.
MaxUpdates == 1

\* ------------------------------------------------------- Optional values
None == {}
Some(v) == {v}
TheVal(o) == CHOOSE v \in o : TRUE

\* ------------------------------------------------------------ the models
UserRole == {"admin", "user", "guest"}

MinNameLen == 2
MaxNameLen == 50
MinAge == 0
MaxAge == 120

UserFields == {"name", "email", "age", "role", "is_active"}

\* Mutant of NameOk: min_length left out.
NameOkNoMin(s) == Len(s) <= MaxNameLen

\* Field(..., min_length=2, max_length=50) on a str
NameOk(s) == Len(s) >= MinNameLen /\ Len(s) <= MaxNameLen
\* Field(None, ge=0, le=120) on an int
AgeOk(a) == a >= MinAge /\ a <= MaxAge

\* UserCreate(**body): name and email are required and not Optional, age is
\* Optional, role is a UserRole with a default and not Optional.
UserCreateValid(body) ==
    /\ "name" \in DOMAIN body /\ body.name # None /\ NameOk(TheVal(body.name))
    /\ "email" \in DOMAIN body /\ body.email # None
    /\ ("age" \in DOMAIN body /\ body.age # None) => AgeOk(TheVal(body.age))
    /\ "role" \in DOMAIN body => (body.role # None /\ TheVal(body.role) \in UserRole)

\* Mutant of UserCreateDict: the role default is not filled in.
UserCreateDictNoDefault(body) ==
    [name  |-> body.name,
     email |-> body.email,
     age   |-> IF "age" \in DOMAIN body THEN body.age ELSE None,
     role  |-> IF "role" \in DOMAIN body THEN body.role ELSE None]

\* user.dict() of a validated UserCreate: every field, defaults filled in.
UserCreateDict(body) ==
    [name  |-> body.name,
     email |-> body.email,
     age   |-> IF "age" \in DOMAIN body THEN body.age ELSE None,
     role  |-> IF "role" \in DOMAIN body THEN body.role ELSE Some("user")]

\* UserUpdate(**body): every field is Optional, so null passes; a value that
\* is not null meets the field's constraints.
UserUpdateValid(body) ==
    /\ ("name" \in DOMAIN body /\ body.name # None) => NameOk(TheVal(body.name))
    /\ ("age" \in DOMAIN body /\ body.age # None) => AgeOk(TheVal(body.age))
    /\ ("role" \in DOMAIN body /\ body.role # None) => TheVal(body.role) \in UserRole

\* User(id=new_id, **d): is_active takes its default.
NewUser(new_id, d) ==
    [id |-> new_id, name |-> d.name, email |-> d.email, age |-> d.age,
     role |-> d.role, is_active |-> Some(TRUE)]

\* Mutant of CopyUpdate: dict() without exclude_unset, so a field the client
\* did not send overwrites the stored one with None.
CopyUpdateAllFields(existing_user, update_data) ==
    [f \in DOMAIN existing_user |->
        IF f \in DOMAIN update_data THEN update_data[f]
        ELSE IF f = "id" THEN existing_user[f] ELSE None]

\* existing_user.copy(update=update_data): the keys of update_data replace
\* the fields of the copy, without validation; update_data is
\* user_update.dict(exclude_unset=True), the fields the client sent.
CopyUpdate(existing_user, update_data) ==
    [f \in DOMAIN existing_user |->
        IF f \in DOMAIN update_data THEN update_data[f] ELSE existing_user[f]]

\* ------------------------------------------------------------ seed data
NameKim  == <<"gim", "cheol", "su">>
NameLee  == <<"i", "yeong", "hui">>
NamePark == <<"bak", "min", "su">>

SeedUsers ==
    << [id |-> 1, name |-> Some(NameKim), email |-> Some("kim@example.com"),
        age |-> Some(25), role |-> Some("user"), is_active |-> Some(TRUE)],
       [id |-> 2, name |-> Some(NameLee), email |-> Some("lee@example.com"),
        age |-> Some(30), role |-> Some("admin"), is_active |-> Some(TRUE)],
       [id |-> 3, name |-> Some(NamePark), email |-> Some("park@example.com"),
        age |-> Some(22), role |-> Some("user"), is_active |-> Some(TRUE)] >>

\* ------------------------------------------------------------- helpers
Ids(db) == {db[i].id : i \in 1..Len(db)}

SetMax(S) == CHOOSE m \in S : \A x \in S : x <= m

\* next((i for i, user in enumerate(users_db) if user.id == user_id), None),
\* as a 1-based position; 0 stands for None.
FindIndex(db, user_id) ==
    IF \E i \in 1..Len(db) : db[i].id = user_id
    THEN CHOOSE i \in 1..Len(db) :
            /\ db[i].id = user_id
            /\ \A j \in 1..(i - 1) : db[j].id # user_id
    ELSE 0

\* Mutant of Pop: pop() without the index removes the last record.
PopLast(db, i) == SubSeq(db, 1, Len(db) - 1)

\* users_db.pop(user_index)
Pop(db, i) == SubSeq(db, 1, i - 1) \o SubSeq(db, i + 1, Len(db))

\* Mutant of NewId: the id is taken from the length of the collection.
NewIdFromLen(db) == Len(db) + 1

\* Mutant of NewId: the id is taken from the first record, not the maximum.
NewIdFirst(db) == IF db # <<>> THEN db[1].id + 1 ELSE 1

\* max([u.id for u in users_db]) + 1 if users_db else 1
NewId(db) == IF db # <<>> THEN SetMax(Ids(db)) + 1 ELSE 1

NotFound == "NotFound"

\* ------------------------------------------------------------- requests
Mail == "new@example.com"
NameA   == <<"A">>
NameAb  == <<"A", "b">>
Name50  == [i \in 1..MaxNameLen |-> "a"]
Name51  == [i \in 1..(MaxNameLen + 1) |-> "a"]

CreateBodies ==
    { [name |-> Some(NameAb), email |-> Some(Mail)],
      [name |-> Some(Name50), email |-> Some(Mail), age |-> Some(MinAge), role |-> Some("guest")],
      [name |-> Some(NameA), email |-> Some(Mail)],
      [name |-> Some(Name51), email |-> Some(Mail)],
      [name |-> Some(NameAb), email |-> Some(Mail), age |-> Some(MinAge - 1)],
      [name |-> Some(NameAb), email |-> Some(Mail), age |-> Some(MaxAge + 1)],
      [name |-> Some(NameAb), email |-> Some(Mail), role |-> Some("root")],
      [name |-> None, email |-> Some(Mail)],
      [email |-> Some(Mail)] }

\* One value per field for an update that sets the field.
UpdateValue ==
    [name |-> Some(<<"B", "o", "b">>), email |-> Some("upd@example.com"),
     age |-> Some(MaxAge), role |-> Some("guest"), is_active |-> Some(FALSE)]

Restrict(f, S) == [k \in S |-> f[k]]

\* Every subset of the fields set to a value, every single field set to
\* null, and bodies that break one constraint.
UpdateBodies ==
    { Restrict(UpdateValue, S) : S \in SUBSET UserFields }
    \cup { [f \in {g} |-> None] : g \in UserFields }
    \cup { [name |-> Some(NameA)], [name |-> Some(Name51)],
           [age |-> Some(MinAge - 1)], [age |-> Some(MaxAge + 1)],
           [role |-> Some("root")] }

UpdateCore ==
    { Restrict(UpdateValue, {"age"}), [name |-> None], [name |-> Some(NameA)] }

\* Query strings of GET /users/search/: the domain is the set of parameters
\* given (a query parameter cannot be null).
SearchQueries ==
    { Restrict([name |-> n, role |-> r, min_age |-> lo, max_age |-> hi], S) :
        S \in SUBSET {"name", "role", "min_age", "max_age"},
        n \in {<<>>, <<"a", "B">>, <<"su">>},
        r \in {"user", "guest"},
        lo \in {MinAge, 26},
        hi \in {MinAge, 30} }
    \cup { [role |-> "root"] }

SearchCore == { [name |-> <<"su">>], [min_age |-> 26] }

\* The ids a request names: the seeded ones and the next two.
RequestIds == 1..(Len(SeedUsers) + 2)

\* ---------------------------------------------------------------- state
Init ==
    /\ users_db = SeedUsers
    /\ resp = [op |-> "none", status |-> 0]
    /\ ever = Ids(SeedUsers)
    /\ nCreates = 0
    /\ nUpdates = 0

\* GET /users
get_users ==
    /\ resp' = [op |-> "get_users", status |-> 200, body |-> users_db]
    /\ UNCHANGED <<users_db, ever, nCreates, nUpdates>>

\* GET /users/{user_id}
get_user ==
    \E user_id \in RequestIds :
        LET i == FindIndex(users_db, user_id) IN
        /\ resp' = IF i = 0
                   THEN [op |-> "get_user", user_id |-> user_id, status |-> 404,
                         detail |-> NotFound]
                   ELSE [op |-> "get_user", user_id |-> user_id, status |-> 200,
                         body |-> users_db[i]]
        /\ UNCHANGED <<users_db, ever, nCreates, nUpdates>>

\* POST /users
create_user(bodies) ==
    \E body \in bodies :
        /\ nCreates < MaxCreates
        /\ nCreates' = nCreates + 1
        /\ UNCHANGED nUpdates
        /\ IF ~UserCreateValid(body)
           THEN /\ resp' = [op |-> "create_user", user |-> body, status |-> 422]
                /\ UNCHANGED <<users_db, ever>>
           ELSE LET new_id == NewId(users_db)
                    new_user == NewUser(new_id, UserCreateDict(body)) IN
                /\ users_db' = Append(users_db, new_user)
                /\ resp' = [op |-> "create_user", user |-> body, status |-> 200,
                            body |-> new_user]
                /\ ever' = ever \cup {new_id}

\* DELETE /users/{user_id}
delete_user ==
    \E user_id \in RequestIds :
        LET user_index == FindIndex(users_db, user_id) IN
        IF user_index = 0
        THEN /\ resp' = [op |-> "delete_user", user_id |-> user_id, status |-> 404,
                         detail |-> NotFound]
             /\ UNCHANGED <<users_db, ever, nCreates, nUpdates>>
        ELSE /\ users_db' = Pop(users_db, user_index)
             /\ resp' = [op |-> "delete_user", user_id |-> user_id, status |-> 200,
                         body |-> [message |-> <<"deleted", user_id>>,
                                   status_code |-> 200]]
             /\ UNCHANGED <<ever, nCreates, nUpdates>>

\* PUT /users/{user_id}
update_user(bodies) ==
    \E user_id \in RequestIds, body \in bodies :
        LET user_index == FindIndex(users_db, user_id) IN
        /\ nUpdates < MaxUpdates
        /\ nUpdates' = nUpdates + 1
        /\ UNCHANGED <<ever, nCreates>>
        /\ IF ~UserUpdateValid(body)
           THEN /\ resp' = [op |-> "update_user", user_id |-> user_id,
                            user_update |-> body, status |-> 422]
                /\ UNCHANGED users_db
           ELSE IF user_index = 0
           THEN /\ resp' = [op |-> "update_user", user_id |-> user_id,
                            user_update |-> body, status |-> 404,
                            detail |-> NotFound]
                /\ UNCHANGED users_db
           ELSE LET existing_user == users_db[user_index]
                    updated_user == CopyUpdate(existing_user, body) IN
                /\ users_db' = [users_db EXCEPT ![user_index] = updated_user]
                /\ resp' = [op |-> "update_user", user_id |-> user_id,
                            user_update |-> body, status |-> 200,
                            body |-> updated_user]

\* str.lower() on the characters that have a lower case here
LowerChar(c) ==
    CASE c = "A" -> "a"
      [] c = "B" -> "b"
      [] OTHER -> c
Lower(s) == [i \in 1..Len(s) |-> LowerChar(s[i])]

\* needle in hay, for strings
Contains(hay, needle) ==
    \E i \in 0..(Len(hay) - Len(needle)) :
        SubSeq(hay, i + 1, i + Len(needle)) = needle

\* The four filters of search_users, each applied to the result of the one
\* before; a parameter that is absent is None.
FilterName(us, q) ==
    IF "name" \in DOMAIN q /\ q.name # <<>>
    THEN SelectSeq(us, LAMBDA u : Contains(Lower(TheVal(u.name)), Lower(q.name)))
    ELSE us
FilterRole(us, q) ==
    IF "role" \in DOMAIN q
    THEN SelectSeq(us, LAMBDA u : u.role = Some(q.role))
    ELSE us
FilterMinAge(us, q) ==
    IF "min_age" \in DOMAIN q
    THEN SelectSeq(us, LAMBDA u : u.age # None /\ TheVal(u.age) # 0
                                   /\ TheVal(u.age) >= q.min_age)
    ELSE us
FilterMaxAge(us, q) ==
    IF "max_age" \in DOMAIN q
    THEN SelectSeq(us, LAMBDA u : u.age # None /\ TheVal(u.age) # 0
                                   /\ TheVal(u.age) <= q.max_age)
    ELSE us

\* u.name.lower() raises AttributeError on a name that is None.
NameFilterRaises(us, q) ==
    /\ "name" \in DOMAIN q /\ q.name # <<>>
    /\ \E i \in 1..Len(us) : us[i].name = None

\* GET /users/search/
search_users(queries) ==
    \E q \in queries :
        /\ resp' =
            IF "role" \in DOMAIN q /\ q.role \notin UserRole
            THEN [op |-> "search_users", query |-> q, status |-> 422]
            ELSE IF NameFilterRaises(users_db, q)
            THEN [op |-> "search_users", query |-> q, status |-> 500]
            ELSE [op |-> "search_users", query |-> q, status |-> 200,
                  body |-> FilterMaxAge(FilterMinAge(FilterRole(
                               FilterName(users_db, q), q), q), q)]
        /\ UNCHANGED <<users_db, ever, nCreates, nUpdates>>

\* Mutant of RoleCounts: the count is set to 1, not incremented.
RoleCountsOne(us) == [r \in {us[i].role : i \in 1..Len(us)} |-> 1]

\* The loop role_counts[user.role] = role_counts.get(user.role, 0) + 1
RECURSIVE RoleCounts(_)
RoleCounts(us) ==
    IF us = <<>> THEN <<>>
    ELSE LET role_counts == RoleCounts(SubSeq(us, 1, Len(us) - 1))
             role == us[Len(us)].role
             n == IF role \in DOMAIN role_counts THEN role_counts[role] ELSE 0
         IN [r \in DOMAIN role_counts \cup {role} |->
                IF r = role THEN n + 1 ELSE role_counts[r]]

\* GET /stats
get_stats ==
    LET total_users == Len(users_db)
        active_users == Len(SelectSeq(users_db, LAMBDA u : u.is_active = Some(TRUE)))
    IN
    /\ resp' = [op |-> "get_stats", status |-> 200,
                body |-> [total_users |-> total_users,
                          active_users |-> active_users,
                          inactive_users |-> total_users - active_users,
                          role_distribution |-> RoleCounts(users_db)]]
    /\ UNCHANGED <<users_db, ever, nCreates, nUpdates>>

Next ==
    \/ get_users
    \/ get_user
    \/ create_user(CreateBodies)
    \/ update_user(UpdateCore)
    \/ delete_user
    \/ search_users(SearchCore)
    \/ get_stats

Spec == Init /\ [][Next]_vars

NextUpdate ==
    \/ update_user(UpdateBodies)
    \/ delete_user
    \/ get_stats

SpecUpdate == Init /\ [][NextUpdate]_vars

NextSearch ==
    \/ create_user(CreateBodies)
    \/ update_user(UpdateCore)
    \/ delete_user
    \/ search_users(SearchQueries)

SpecSearch == Init /\ [][NextSearch]_vars

\* ================================================================ claims
\* What a formula reads of a step: the request and response are in resp'.
Created   == resp'.op = "create_user" /\ resp'.status = 200
Updated   == resp'.op = "update_user" /\ resp'.status = 200
Deleted   == resp'.op = "delete_user" /\ resp'.status = 200
IndexOf(db, id) == CHOOSE i \in 1..Len(db) : db[i].id = id

\* C1: no two records of the collection have the same id, in every state
\* reachable from the seeded records by create, update and delete requests.
C1_UniqueIds ==
    \A i, j \in 1..Len(users_db) : i # j => users_db[i].id # users_db[j].id

\* A create that reused the id of a deleted seed record, after an update.
C1_Witness ==
    /\ resp.op = "create_user" /\ resp.status = 200
    /\ resp.body.id \in Ids(SeedUsers)
    /\ nUpdates > 0
    /\ Len(users_db) >= 2

\* The create bodies the contract accepts: a name of length 2 to 50, an
\* email, an age that is absent, null or in 0..120, a role that is absent or
\* of the enumeration.
C2_ValidCreate(body) ==
    /\ "name" \in DOMAIN body /\ body.name # None
    /\ Len(TheVal(body.name)) >= 2 /\ Len(TheVal(body.name)) <= 50
    /\ "email" \in DOMAIN body /\ body.email # None
    /\ ("age" \in DOMAIN body /\ body.age # None)
          => (TheVal(body.age) >= 0 /\ TheVal(body.age) <= 120)
    /\ "role" \in DOMAIN body
          => (body.role # None /\ TheVal(body.role) \in {"admin", "user", "guest"})

\* C2: a valid create succeeds; the returned record has id 1 + the maximum
\* id before the request (1 on an empty collection), is_active true and the
\* supplied role or "user"; it is appended at the end, the length grows by
\* one and the records stored before keep their values and order.
C2_Create ==
    [][ /\ (resp'.op = "create_user" /\ C2_ValidCreate(resp'.user))
            => resp'.status = 200
        /\ Created =>
            /\ IF users_db = <<>>
               THEN resp'.body.id = 1
               ELSE /\ \E i \in 1..Len(users_db) : resp'.body.id = users_db[i].id + 1
                    /\ \A i \in 1..Len(users_db) : resp'.body.id > users_db[i].id
            /\ resp'.body.is_active = Some(TRUE)
            /\ resp'.body.role = IF "role" \in DOMAIN resp'.user
                                 THEN resp'.user.role ELSE Some("user")
            /\ resp'.body.name = resp'.user.name
            /\ Len(users_db') = Len(users_db) + 1
            /\ users_db'[Len(users_db')] = resp'.body
            /\ \A i \in 1..Len(users_db) : users_db'[i] = users_db[i]
      ]_vars

\* A create with no role, issued on the emptied collection.
C2_Witness ==
    /\ resp.op = "create_user" /\ resp.status = 200
    /\ "role" \notin DOMAIN resp.user
    /\ resp.body.id = 1
    /\ Len(users_db) = 1

\* C3: a successful update is a merge: the fields present in the body take
\* the supplied values, the omitted ones keep theirs; the id, the position,
\* the length and every other record are unchanged.
C3_Merge ==
    [][ Updated =>
          LET i == IndexOf(users_db, resp'.user_id)
              body == resp'.user_update IN
          /\ Len(users_db') = Len(users_db)
          /\ \A j \in 1..Len(users_db) : j # i => users_db'[j] = users_db[j]
          /\ users_db'[i].id = users_db[i].id
          /\ \A f \in UserFields :
                users_db'[i][f] = IF f \in DOMAIN body THEN body[f]
                                  ELSE users_db[i][f]
          /\ resp'.body = users_db'[i]
      ]_vars

\* An update with only age, on the first seeded record.
C3_Witness ==
    /\ resp.op = "update_user" /\ resp.status = 200
    /\ DOMAIN resp.user_update = {"age"}
    /\ resp.body.age = Some(MaxAge)
    /\ resp.body.name = Some(NameKim)
    /\ resp.body.role = Some("user")

\* C4: every stored record has a name that is a string of length 2 to 50,
\* an age that is absent or in 0..120, a role of the enumeration and a
\* boolean is_active.
C4_StoredValid ==
    \A i \in 1..Len(users_db) :
        LET u == users_db[i] IN
        /\ u.name # None /\ Len(TheVal(u.name)) >= 2 /\ Len(TheVal(u.name)) <= 50
        /\ u.age # None => (TheVal(u.age) >= 0 /\ TheVal(u.age) <= 120)
        /\ u.role # None /\ TheVal(u.role) \in {"admin", "user", "guest"}
        /\ u.is_active \in {Some(TRUE), Some(FALSE)}

\* The filters of the search contract: a parameter that is absent filters
\* nothing, and an age of 0 is an age.
C5_Matches(u, q) ==
    /\ "name" \in DOMAIN q =>
          (u.name # None /\ Contains(Lower(TheVal(u.name)), Lower(q.name)))
    /\ "role" \in DOMAIN q => u.role = Some(q.role)
    /\ "min_age" \in DOMAIN q => (u.age # None /\ TheVal(u.age) >= q.min_age)
    /\ "max_age" \in DOMAIN q => (u.age # None /\ TheVal(u.age) <= q.max_age)

\* C5: the result of a search is the sub-sequence of the collection, in
\* order, of the users that satisfy every supplied filter.  Stated for the
\* searches that return a result, on a collection whose names are strings.
C5_Search ==
    (/\ resp.op = "search_users" /\ resp.status = 200
     /\ \A i \in 1..Len(users_db) : users_db[i].name # None) =>
        resp.body = SelectSeq(users_db, LAMBDA u : C5_Matches(u, resp.query))

\* C6: a delete of a present id succeeds with status_code 200, the length
\* drops by one, the other records keep their values and order, and a get
\* of that id right after it fails with 404.
C6_Delete ==
    [][ /\ (resp'.op = "delete_user" /\ resp'.user_id \in Ids(users_db))
            => resp'.status = 200
        /\ Deleted =>
            /\ resp'.body.status_code = 200
            /\ Len(users_db') = Len(users_db) - 1
            /\ users_db' = SelectSeq(users_db, LAMBDA u : u.id # resp'.user_id)
        /\ (resp.op = "delete_user" /\ resp.status = 200
            /\ resp'.op = "get_user" /\ resp'.user_id = resp.user_id)
            => resp'.status = 404
      ]_vars

\* A get of an id that was deleted.
C6_Witness ==
    /\ resp.op = "get_user" /\ resp.status = 404
    /\ resp.user_id \in ever
    /\ Len(users_db) = 2

\* The create bodies the claim names: a name length outside 2..50 or an age
\* outside 0..120.
C7_BadCreate(body) ==
    \/ ("name" \in DOMAIN body /\ body.name # None
        /\ (Len(TheVal(body.name)) < 2 \/ Len(TheVal(body.name)) > 50))
    \/ ("age" \in DOMAIN body /\ body.age # None
        /\ (TheVal(body.age) < 0 \/ TheVal(body.age) > 120))

\* C7 as stated: get, update and delete fail with 404 exactly when no record
\* has the requested id, a create with a bad name length or age fails with
\* 422, and a request that fails so leaves the collection as it was.
C7_Original ==
    [][ /\ resp'.op \in {"get_user", "update_user", "delete_user"}
            => (resp'.status = 404 <=> resp'.user_id \notin Ids(users_db))
        /\ (resp'.op = "create_user" /\ C7_BadCreate(resp'.user))
            => resp'.status = 422
        /\ resp'.status \in {404, 422} => users_db' = users_db
      ]_vars

\* C7, amended: an update whose body fails validation fails with 422 whether
\* or not the id exists; get, delete and an update whose body passes
\* validation fail with 404 exactly when no record has the requested id.
C7_Failures ==
    [][ /\ resp'.op \in {"get_user", "delete_user"}
            => (resp'.status = 404 <=> resp'.user_id \notin Ids(users_db))
        /\ resp'.op = "update_user"
            => /\ resp'.status = 422 <=> ~UserUpdateValid(resp'.user_update)
               /\ resp'.status # 422 =>
                    (resp'.status = 404 <=> resp'.user_id \notin Ids(users_db))
        /\ (resp'.op = "create_user" /\ C7_BadCreate(resp'.user))
            => resp'.status = 422
        /\ resp'.status \in {404, 422} => users_db' = users_db
      ]_vars

\* A create with a name of length 1, rejected on the seeded collection.
C7_Witness ==
    /\ resp.op = "create_user" /\ resp.status = 422
    /\ "name" \in DOMAIN resp.user /\ resp.user.name # None
    /\ Len(TheVal(resp.user.name)) = 1
    /\ users_db = SeedUsers

RECURSIVE SumOver(_, _)
SumOver(f, S) ==
    IF S = {} THEN 0
    ELSE LET k == CHOOSE k \in S : TRUE IN f[k] + SumOver(f, S \ {k})

\* C8: stats returns the collection length, the number of records whose
\* is_active is true, their difference, and a role_distribution whose keys
\* are the roles some record holds (None for a record whose role is null)
\* and whose values are the counts of the records holding them; on the
\* seeded collection: 3, 3, 0, {user: 2, admin: 1}.
C8_Stats ==
    resp.op = "get_stats" =>
        LET b == resp.body
            rd == resp.body.role_distribution IN
        /\ b.total_users = Len(users_db)
        /\ b.active_users =
              Cardinality({i \in 1..Len(users_db) : users_db[i].is_active = Some(TRUE)})
        /\ b.inactive_users = b.total_users - b.active_users
        /\ DOMAIN rd = {users_db[i].role : i \in 1..Len(users_db)}
        /\ \A r \in DOMAIN rd :
              rd[r] = Cardinality({i \in 1..Len(users_db) : users_db[i].role = r})
        /\ SumOver(rd, DOMAIN rd) = b.total_users
        /\ users_db = SeedUsers =>
              /\ b.total_users = 3 /\ b.active_users = 3 /\ b.inactive_users = 0
              /\ DOMAIN rd = {Some("user"), Some("admin")}
              /\ rd[Some("user")] = 2 /\ rd[Some("admin")] = 1

\* Stats of a collection with an inactive record and two roles.
C8_Witness ==
    /\ resp.op = "get_stats"
    /\ resp.body.total_users = 3
    /\ resp.body.inactive_users = 1
    /\ Cardinality(DOMAIN resp.body.role_distribution) = 2

\* C9: the ids are strictly increasing along the collection, so the last
\* record holds the maximum id and an id is found at one position at most.
C9_Increasing ==
    /\ \A i, j \in 1..Len(users_db) : i < j => users_db[i].id < users_db[j].id
    /\ users_db # <<>> =>
          \A i \in 1..Len(users_db) : users_db[i].id <= users_db[Len(users_db)].id
    /\ \A id \in RequestIds :
          Cardinality({i \in 1..Len(users_db) : users_db[i].id = id}) <= 1

\* A delete that left a gap below a created record.
C9_Witness ==
    /\ resp.op = "delete_user" /\ resp.status = 200
    /\ Len(users_db) = 3
    /\ users_db[3].id = 4
    /\ nUpdates > 0

\* C10 as stated: the id a create assigns was never the id of a record of
\* the collection, deleted records included.
C10_Original ==
    [][ Created => resp'.body.id \notin ever ]_vars

\* C10, amended: the id a create assigns is greater than the id of every
\* record in the collection at that time; it is the id of a deleted record
\* only when no record with that id or a greater one is left.
C10_FreshAmongLive ==
    [][ Created =>
          /\ resp'.body.id \notin Ids(users_db)
          /\ \A i \in 1..Len(users_db) : users_db[i].id < resp'.body.id
      ]_vars

\* A create that was given the id of a record deleted before.
C10_Witness ==
    /\ resp.op = "create_user" /\ resp.status = 200
    /\ resp.body.id \in Ids(SeedUsers)
    /\ users_db[Len(users_db)].id = resp.body.id
====
